---- MODULE Spec2Model ----
(***************************************************************************)
(* flowkit: an in-process workflow orchestrator.                           *)
(*                                                                         *)
(* The module models                                                       *)
(*   - Task.__call__ (task.py): run condition, retry loop, lifecycle logs; *)
(*   - the three graph front-ends: the dependency operator on Tasks        *)
(*     (task.py), the Flow builder (flow.py) and the functional builder    *)
(*     (functional.py);                                                    *)
(*   - the cycle detector and the scheduler loop of DAG.run, Flow.run and  *)
(*     FunctionalFlow.run, with the worker pool they submit to.            *)
(***************************************************************************)
EXTENDS Integers, Sequences, FiniteSets, TLC

(***************************************************************************)
(* Bounds of the model.                                                    *)
(***************************************************************************)
NumTasks == 3
MaxEdges == 2
MaxOps == 2
MaxCallRetries == 3
MaxCalls == 3

\* The tasks of the fan-out/fan-in pipeline: extract, transform1, transform2,
\* load
FanTasks == 4
\* The tasks a twice-built chain declares at most (task1 >> task2)
ChainTasks == 2
\* The seconds the clock of the state store advances at most
MaxTime == 3
\* The tasks the builder calls are made with (start, branch1, branch2, merge)
FlowTasks == 4
\* The nodes of the functional flow (inp, out1, out2)
NumApplied == 3

(***************************************************************************)
(* Values.  NoneV is Python's None; Absent marks a key that is not in a    *)
(* dictionary.  Values are the non-None values a task body can return.     *)
(***************************************************************************)
NoneV == 0
Absent == -1
\* `ttl=None`, apart from every number of seconds
TtlNone == -2
\* `backoff: float = 2.0`
DefaultBackoff == 2
Values == {1, 2}

\* The universe of tasks and of nodes; Declared are the tasks the generated
\* programs declare, the pipeline declares FanTasks of the universe.
NumNodes == IF NumTasks > FanTasks THEN NumTasks ELSE FanTasks
Tasks == 1 .. NumNodes
NodeIds == 1 .. NumNodes
Declared == 1 .. NumTasks

\* The run condition of the conditional tasks, `when=lambda x: x > 50` scaled
\* to the value domain (and total on None): false on None and 1, true on 2.
WhenPred(v) == v # NoneV /\ v > 1

(***************************************************************************)
(* The declared tasks: @task(retries=..., when=...) def f(<params>).       *)
(*   task 1:  @task()                          def t1(t2, t3, ...)         *)
(*   task 2:  @task(retries=1, when=WhenPred)  def t2(t1, t3, ...)         *)
(*   task 3:  @task(retries=1)                 def t3(x=None)              *)
(*   task 4:  @task(when=WhenPred)             def t4(x=None)              *)
(* and so on, in this rhythm.  The parameters of tasks 1 and 2 are named   *)
(* after the other tasks; those of tasks 3 and 4 name no task.             *)
(***************************************************************************)
TaskRetries(t) == IF t % 4 \in {2, 3} THEN 1 ELSE 0
TaskHasWhen(t) == t % 2 = 0
TaskParams(t) == IF t % 4 \in {1, 2} THEN Declared \ {t} ELSE {}

(***************************************************************************)
(* Exceptions.  A body's exception is identified by the node whose body    *)
(* raised it and the number of the call that raised it.                    *)
(***************************************************************************)
NoExc == [type |-> "none", node |-> 0, call |-> 0]
DAGCycleError == [type |-> "DAGCycleError", node |-> 0, call |-> 0]
BodyError(n, k) == [type |-> "BodyError", node |-> n, call |-> k]
\* What `state[task]` raises for a task that is not a key of `state`
KeyError == [type |-> "KeyError", node |-> 0, call |-> 0]

(***************************************************************************)
(* Adjacency lists.  Python lists are sequences: order and multiplicity    *)
(* are kept.                                                               *)
(***************************************************************************)
EmptyAdj == [n \in NodeIds |-> <<>>]

SeqToSet(s) == {s[i] : i \in DOMAIN s}

\* A faulty edge: the reverse graph is not updated
AddEdgeForward(g, a, b) ==
  [graph |-> [g.graph EXCEPT ![a] = Append(@, b)],
   reverse_graph |-> g.reverse_graph]

\* One edge a -> b: `self.graph[a].append(b); self.reverse_graph[b].append(a)`,
\* respectively `b.upstream.append(a); a.downstream.append(b)`.
AddEdge(g, a, b) ==
  [graph |-> [g.graph EXCEPT ![a] = Append(@, b)],
   reverse_graph |-> [g.reverse_graph EXCEPT ![b] = Append(@, a)]]

RECURSIVE AddEdgeSeq(_, _)
AddEdgeSeq(g, pairs) ==
  IF pairs = <<>> THEN g
  ELSE AddEdgeSeq(AddEdge(g, Head(pairs)[1], Head(pairs)[2]), Tail(pairs))

\* for prev in prevs: for b in bts: edge prev -> b
CrossPairs(prevs, bts) ==
  [k \in 1 .. (Len(prevs) * Len(bts)) |->
     << prevs[((k - 1) \div Len(bts)) + 1], bts[((k - 1) % Len(bts)) + 1] >>]

\* for t in ts: if t not in tasks: tasks.append(t)
RECURSIVE AppendNew(_, _)
AppendNew(tasks, ts) ==
  IF ts = <<>> THEN tasks
  ELSE AppendNew(IF Head(ts) \in SeqToSet(tasks) THEN tasks
                 ELSE Append(tasks, Head(ts)), Tail(ts))

(***************************************************************************)
(* Chain style (task.py): the dependency operator records the edges on     *)
(* the tasks themselves.                                                   *)
(***************************************************************************)
\* A faulty operator: only the first (left, right) pair is connected
RshiftFirst(g, pairs) ==
  IF pairs = <<>> THEN g ELSE AddEdge(g, pairs[1][1], pairs[1][2])

\* a >> b, a >> [b1..bn], [a1..an] >> b, as the sequence of (left, right) pairs
Rshift(g, pairs) == AddEdgeSeq(g, pairs)

EdgeSeqsOver(ns, len) == [1 .. len -> ns \X ns]
EdgeSeqs(ns) == UNION {EdgeSeqsOver(ns, len) : len \in 0 .. MaxEdges}

(***************************************************************************)
(* Builder style (flow.py).                                                *)
(***************************************************************************)
FlowNew == [tasks |-> <<>>, graph |-> EmptyAdj, reverse_graph |-> EmptyAdj,
            bp |-> <<>>]

FlowAdd(f, t) ==
  LET ts == Append(f.tasks, t)
      g  == IF Len(ts) > 1
            THEN AddEdge([graph |-> f.graph, reverse_graph |-> f.reverse_graph],
                         ts[Len(ts) - 1], t)
            ELSE [graph |-> f.graph, reverse_graph |-> f.reverse_graph]
  IN [tasks |-> ts, graph |-> g.graph, reverse_graph |-> g.reverse_graph,
      bp |-> <<t>>]

\* A faulty check: branch and merge never raise
FlowCanBranchAlways(f) == TRUE

\* branch and merge raise ValueError when there is no branch point
FlowCanBranch(f) == f.bp # <<>>

FlowBranch(f, bts) ==
  LET g == AddEdgeSeq([graph |-> f.graph, reverse_graph |-> f.reverse_graph],
                      CrossPairs(f.bp, bts))
  IN [tasks |-> AppendNew(f.tasks, bts), graph |-> g.graph,
      reverse_graph |-> g.reverse_graph, bp |-> bts]

\* A faulty merge: it connects the most recent branch point only
FlowMergeLast(f, m) ==
  LET g == AddEdge([graph |-> f.graph, reverse_graph |-> f.reverse_graph],
                   f.bp[Len(f.bp)], m)
  IN [tasks |-> AppendNew(f.tasks, <<m>>), graph |-> g.graph,
      reverse_graph |-> g.reverse_graph, bp |-> <<m>>]

FlowMerge(f, m) ==
  LET g == AddEdgeSeq([graph |-> f.graph, reverse_graph |-> f.reverse_graph],
                      CrossPairs(f.bp, <<m>>))
  IN [tasks |-> AppendNew(f.tasks, <<m>>), graph |-> g.graph,
      reverse_graph |-> g.reverse_graph, bp |-> <<m>>]

\* The builder calls of a script; a call that raises leaves the flow as it was.
FlowOps ==
  [op : {"add"}, ts : [1 .. 1 -> Declared]] \cup
  [op : {"merge"}, ts : [1 .. 1 -> Declared]] \cup
  [op : {"branch"}, ts : [1 .. 1 -> Declared] \cup [1 .. 2 -> Declared]]

FlowApply(f, o) ==
  IF o.op = "add" THEN FlowAdd(f, o.ts[1])
  ELSE IF ~FlowCanBranch(f) THEN f
  ELSE IF o.op = "branch" THEN FlowBranch(f, o.ts)
  ELSE FlowMerge(f, o.ts[1])

RECURSIVE FlowBuild(_, _)
FlowBuild(f, ops) ==
  IF ops = <<>> THEN f ELSE FlowBuild(FlowApply(f, Head(ops)), Tail(ops))

FlowScripts == UNION {[1 .. len -> FlowOps] : len \in 0 .. MaxOps}

\* Two Flow objects, built from the same tasks
Instances == 1 .. 2
BuilderTasks == 1 .. FlowTasks
\* The argument lists of branch: branch(), branch(t), branch(t, u) with the
\* tasks in the order of their declaration
BranchLists ==
  {<<>>} \cup {<<t>> : t \in BuilderTasks} \cup
  {bts \in BuilderTasks \X BuilderTasks : bts[1] < bts[2]}
\* flow.add(t), flow.merge(t), flow.branch(...)
BuilderOps ==
  [op : {"add"}, ts : {<<t>> : t \in BuilderTasks}] \cup
  [op : {"merge"}, ts : {<<t>> : t \in BuilderTasks}] \cup
  [op : {"branch"}, ts : BranchLists]
NoCall == [flow |-> 0, op |-> "none", ts |-> <<>>, bp |-> <<>>, raised |-> FALSE]
\* `if not self._branch_points: raise ValueError(...)`
FlowRaises(f, o) == o.op # "add" /\ ~FlowCanBranch(f)

\* Flow._collect_transitive_tasks: everything downstream of the listed tasks
RECURSIVE CollectTransitive(_, _)
CollectTransitive(graph, collected) ==
  LET more == UNION {SeqToSet(graph[t]) : t \in collected}
  IN IF more \subseteq collected THEN collected
     ELSE CollectTransitive(graph, collected \cup more)

(***************************************************************************)
(* Functional style (functional.py).  A node is an AppliedTask: a task     *)
(* and the tuple of its input nodes.                                       *)
(***************************************************************************)
RECURSIVE Traverse(_, _, _), TraverseInputs(_, _, _, _)
\* FunctionalFlow._build_graph.traverse
Traverse(inputs, node, st) ==
  IF node \in st.all_nodes THEN st
  ELSE TraverseInputs(inputs, node, 1,
                      [st EXCEPT !.all_nodes = @ \cup {node}])
TraverseInputs(inputs, node, i, st) ==
  IF i > Len(inputs[node]) THEN st
  ELSE LET inp == inputs[node][i]
           s1  == Traverse(inputs, inp, st)
           g   == AddEdge([graph |-> s1.graph,
                           reverse_graph |-> s1.reverse_graph], inp, node)
       IN TraverseInputs(inputs, node, i + 1,
                         [all_nodes |-> s1.all_nodes, graph |-> g.graph,
                          reverse_graph |-> g.reverse_graph])

RECURSIVE BuildGraphFrom(_, _, _)
BuildGraphFrom(inputs, outs, st) ==
  IF outs = <<>> THEN st
  ELSE BuildGraphFrom(inputs, Tail(outs), Traverse(inputs, Head(outs), st))

\* FunctionalFlow._build_graph
BuildGraph(inputs, outs) ==
  BuildGraphFrom(inputs, outs,
                 [all_nodes |-> {}, graph |-> EmptyAdj,
                  reverse_graph |-> EmptyAdj])

\* A faulty constructor: the graph is traversed from the inputs as well
FunctionalFlowNewFromInputs(app, ins, outs) ==
  LET st == BuildGraph(app, ins \o outs)
  IN [inputs |-> ins, outputs |-> outs, all_nodes |-> st.all_nodes,
      graph |-> st.graph, reverse_graph |-> st.reverse_graph]

\* FunctionalFlow(inputs=ins, outputs=outs), on nodes whose inputs are app
FunctionalFlowNew(app, ins, outs) ==
  LET st == BuildGraph(app, outs)
  IN [inputs |-> ins, outputs |-> outs, all_nodes |-> st.all_nodes,
      graph |-> st.graph, reverse_graph |-> st.reverse_graph]

\* The outputs a FunctionalFlow is declared with: none, or one node
OutputSeqs(ns) == {<<>>} \cup {<<n>> : n \in ns}

(***************************************************************************)
(* Cycle detector: _has_cycle of dag.py, flow.py and functional.py, a      *)
(* three-colour depth-first search (0 unvisited, 1 visiting, 2 visited)    *)
(* started from every unvisited node in iteration order.  The search ends  *)
(* with "True", with "False", or with the KeyError that `state[task]`      *)
(* raises for a task outside the collection the colours were made for.     *)
(***************************************************************************)
RECURSIVE Dfs(_, _, _), DfsDown(_, _, _, _)
Dfs(adj, task, state) ==
  IF task \notin DOMAIN state THEN [found |-> "KeyError", state |-> state]
  ELSE IF state[task] = 1 THEN [found |-> "True", state |-> state]
  ELSE IF state[task] = 2 THEN [found |-> "False", state |-> state]
  ELSE DfsDown(adj, task, 1, [state EXCEPT ![task] = 1])
DfsDown(adj, task, i, state) ==
  IF i > Len(adj[task])
  THEN [found |-> "False", state |-> [state EXCEPT ![task] = 2]]
  ELSE LET r == Dfs(adj, adj[task][i], state)
       IN IF r.found # "False" THEN r ELSE DfsDown(adj, task, i + 1, r.state)

RECURSIVE HasCycleLoop(_, _, _, _)
HasCycleLoop(adj, order, i, state) ==
  IF i > Len(order) THEN "False"
  ELSE IF state[order[i]] = 0
       THEN LET r == Dfs(adj, order[i], state)
            IN IF r.found # "False" THEN r.found
               ELSE HasCycleLoop(adj, order, i + 1, r.state)
       ELSE HasCycleLoop(adj, order, i + 1, state)

\* A faulty detector: the depth-first search starts from the roots only, so a
\* cycle no root leads to goes unseen
HasCycleFromRoots(adj, order) ==
  LET NoIncoming(n) == \A m \in SeqToSet(order) : n \notin SeqToSet(adj[m])
      roots == SelectSeq(order, NoIncoming)
  IN HasCycleLoop(adj, roots, 1, [n \in SeqToSet(order) |-> 0]) = "True"

\* _has_cycle(tasks); order: the iteration order of the node collection
CycleCheck(adj, order) ==
  HasCycleLoop(adj, order, 1, [t \in SeqToSet(order) |-> 0])

\* `if self._has_cycle(...)`
HasCycle(adj, order) == CycleCheck(adj, order) = "True"

\* The iteration orders of a set (a Python set iterates in no fixed order).
Orders(S) ==
  {o \in [1 .. Cardinality(S) -> S] : \A i, j \in DOMAIN o : i # j => o[i] # o[j]}


(***************************************************************************)
(* State.                                                                  *)
(***************************************************************************)
VARIABLES
  fe,         \* the front-end that runs: "dag", "flow", "func", or "call"
              \* (a Task invoked directly by a caller)
  nodes,      \* the node set the scheduler walks (registry, all_tasks, all_nodes)
  up,         \* node -> upstream list (t.upstream, reverse_graph)
  down,       \* node -> downstream list (t.downstream, graph)
  taskOf,     \* node -> its task (AppliedTask.task); a task's name is its id
  retries,    \* task -> Task.retries
  when,       \* task -> whether Task.when is set
  maxWorkers, \* the pool's number of workers
  pc,         \* run(): "init", "loop", "aborting", "returned", "raised"
  indegree,   \* run()'s in-degree table
  results,    \* run()'s result store: name -> value, Absent when no key
  futures,    \* run()'s futures dict (the nodes whose future is in it)
  batch,      \* futures that the current as_completed() call still has to yield
  completed,  \* run()'s progress counter
  error,      \* the exception run() raises
  status,     \* node -> "pending", "queued", "running", "succeeded",
              \*         "skipped", "failed"
  mode,       \* node -> how its callable is invoked: "task" (Task.__call__)
              \*         or "direct" (task.func(**kwargs))
  args,       \* node -> positional arguments of the invocation
  snap,       \* node -> the results dict handed over at submission (Flow)
  kwargs,     \* node -> keyword arguments the body is called with
  attempt,    \* node -> Task.__call__'s attempt counter
  calls,      \* node -> number of calls of the body
  fresult,    \* node -> value its future holds
  exc,        \* node -> exception its future holds
  tlog,       \* node -> number of lifecycle events logged, by kind
  flows,      \* Flow instance -> its tasks, graph, reverse_graph and
              \*                  _branch_points
  lastcall,   \* the last builder call: instance, method, arguments, the
              \* branch points it found, and whether it raised ValueError
  ncalls,     \* number of builder calls made
  applied,    \* AppliedTask node -> its tuple of input nodes (node.inputs)
  fflow,      \* the FunctionalFlow object: inputs, outputs, all_nodes,
              \* graph, reverse_graph
  retval,     \* what run() returned
  registry,   \* Task._all_tasks: the registered Task objects, in order
  upstream,   \* Task object -> its upstream list
  downstream, \* Task object -> its downstream list
  prog,       \* the chain-style program that builds the graph
  first,      \* the graph the first build of the program left
  sm,         \* the StateManager: default_ttl and _cache
  tcache,     \* the TaskCache decorator: its ttl
  now,        \* time.time()
  lastop,     \* the last call on the store: its arguments and what it returned
  delay,      \* task -> Task.delay, in hundredths of a second
  backoff,    \* task -> Task.backoff
  current_delay, \* node -> Task.__call__'s current_delay
  slept,      \* node -> the waits of the invocation under way: for each
              \* time.sleep, current_delay and the total_delay slept
  dlog        \* run()'s lifecycle events logged: the numbers of
              \* log_dag_start and of log_dag_complete calls

flowVars == << flows, lastcall, ncalls >>
funcVars == << applied, fflow >>
taskVars == << registry, upstream, downstream >>
chainVars == << prog, first >>
stateVars == << sm, tcache, now, lastop >>
cfgVars == << fe, nodes, up, down, taskOf, retries, when, maxWorkers, flowVars,
             funcVars, taskVars, chainVars, stateVars, delay, backoff >>
runVars == << pc, indegree, results, futures, batch, completed, error, retval,
             dlog >>
nodeVars == << status, mode, args, snap, kwargs, attempt, calls, fresult, exc, tlog,
              current_delay, slept >>
vars == << cfgVars, runVars, nodeVars >>

EmptyDict == [t \in Tasks |-> Absent]
Keys(d) == {t \in Tasks : d[t] # Absent}
NoLog == [start |-> 0, retry |-> 0, sleep |-> 0, failure |-> 0,
          success |-> 0, skip |-> 0]
Done == {"succeeded", "skipped", "failed"}
\* The graph of no task
NoGraph == [names |-> <<>>, up |-> <<>>, down |-> <<>>]
\* run() has not returned
NoReturn == [shape |-> "none", vals |-> <<>>]
NoDagLog == [start |-> 0, complete |-> 0]
\* DAG(max_workers=1), DAG(max_workers=2), and so for the other front-ends
WorkerCaps == {1, 2}

\* The locals of run() and the nodes, before anything ran
RunFresh ==
  /\ indegree = [n \in NodeIds |-> 0]
  /\ results = EmptyDict
  /\ futures = {}
  /\ batch = {}
  /\ completed = 0
  /\ dlog = NoDagLog
  /\ error = NoExc
  /\ retval = NoReturn
  /\ status = [n \in NodeIds |-> "pending"]
  /\ mode = [n \in NodeIds |-> "task"]
  /\ args = [n \in NodeIds |-> <<>>]
  /\ snap = [n \in NodeIds |-> EmptyDict]
  /\ kwargs = [n \in NodeIds |-> EmptyDict]
  /\ attempt = [n \in NodeIds |-> 0]
  /\ calls = [n \in NodeIds |-> 0]
  /\ fresult = [n \in NodeIds |-> NoneV]
  /\ exc = [n \in NodeIds |-> NoExc]
  /\ tlog = [n \in NodeIds |-> NoLog]
  /\ current_delay = [n \in NodeIds |-> 0]
  /\ slept = [n \in NodeIds |-> <<>>]

\* The state of run() and of the nodes before run() is called.
RunInit ==
  /\ pc = "init"
  /\ RunFresh

\* The registry after the tasks 1 .. k were declared, in this order
Registered(k) == [i \in 1 .. k |-> i]

\* No chain-style program is followed
NoProgram ==
  /\ prog = [k |-> 0, stmts |-> <<>>, redeclare |-> {}]
  /\ first = NoGraph

\* The values of Task.delay (0, 0.1 s, 0.2 s) and of Task.backoff
Delays == {0, 10, 20}
Backoffs == {0, 1, 2}

\* Every task is declared with delay=0 and the default backoff: a retry
\* does not wait
NoWait ==
  /\ delay = [t \in Tasks |-> 0]
  /\ backoff = [t \in Tasks |-> DefaultBackoff]

\* Every task is declared and none is chained with >>
PlainTasks ==
  /\ registry = Registered(NumNodes)
  /\ upstream = EmptyAdj
  /\ downstream = EmptyAdj
  /\ NoProgram

\* No AppliedTask and no FunctionalFlow has been constructed
NoFunctional ==
  /\ applied = EmptyAdj
  /\ fflow = FunctionalFlowNew(EmptyAdj, <<>>, <<>>)

\* StateManager(default_ttl=dt), in memory
StateManagerNew(dt) == [default_ttl |-> dt, cache |-> << >>]

NoOp == [op |-> "none", key |-> 0, arg |-> NoneV, ret |-> NoneV, flag |-> FALSE]

\* No StateManager is used
NoStore ==
  /\ sm = StateManagerNew(TtlNone)
  /\ tcache = [ttl |-> TtlNone]
  /\ now = 0
  /\ lastop = NoOp

\* No Flow has been built
NoFlows ==
  /\ flows = [i \in Instances |-> FlowNew]
  /\ lastcall = NoCall
  /\ ncalls = 0

\* The declared tasks
TasksInit ==
  /\ retries = [t \in Tasks |-> TaskRetries(t)]
  /\ when = [t \in Tasks |-> TaskHasWhen(t)]

\* Chain style: k tasks are declared (and registered), then chained with >>.
DagInit ==
  /\ fe = "dag"
  /\ NoFunctional
  /\ \E k \in 0 .. NumTasks : \E edges \in EdgeSeqs(1 .. k) :
       LET g == Rshift([graph |-> EmptyAdj, reverse_graph |-> EmptyAdj], edges)
       IN /\ nodes = 1 .. k
          /\ up = g.reverse_graph
          /\ down = g.graph
          /\ registry = Registered(k)
          /\ upstream = g.reverse_graph
          /\ downstream = g.graph
  /\ NoProgram
  /\ taskOf = [n \in NodeIds |-> n]

\* Builder style: a Flow is built by a script of add/branch/merge calls.
FlowInit ==
  /\ fe = "flow"
  /\ NoFunctional
  /\ PlainTasks
  /\ \E script \in FlowScripts :
       LET f == FlowBuild(FlowNew, script)
       IN /\ nodes = CollectTransitive(f.graph, SeqToSet(f.tasks))
          /\ up = f.reverse_graph
          /\ down = f.graph
  /\ taskOf = [n \in NodeIds |-> n]

\* Functional style: k nodes are constructed, each with its tuple of inputs,
\* a FunctionalFlow is constructed on some of them as outputs.  With `shared`
\* the last node applies the task of the first one.
FuncInit ==
  /\ fe = "func"
  /\ PlainTasks
  /\ \E k \in 0 .. NumTasks : \E edges \in EdgeSeqs(1 .. k) :
     \E outs \in OutputSeqs(1 .. k) :
       LET inputs == AddEdgeSeq([graph |-> EmptyAdj, reverse_graph |-> EmptyAdj],
                                edges).reverse_graph
           st == BuildGraph(inputs, outs)
       IN /\ nodes = st.all_nodes
          /\ up = st.reverse_graph
          /\ down = st.graph
          /\ applied = st.reverse_graph
          /\ fflow = FunctionalFlowNew(applied, <<>>, outs)
  /\ \E shared \in BOOLEAN :
       taskOf = [n \in NodeIds |-> IF shared /\ n = NumTasks THEN 1 ELSE n]

Init ==
  /\ DagInit \/ FlowInit \/ FuncInit
  /\ TasksInit
  /\ maxWorkers \in WorkerCaps
  /\ RunInit
  /\ NoFlows
  /\ NoWait
  /\ NoStore


(***************************************************************************)
(* Task.__call__ and the wrappers the runners submit to the pool.          *)
(***************************************************************************)
\* dict.get(key): None when the key is missing
Get(d, k) == IF d[k] = Absent THEN NoneV ELSE d[k]

\* A faulty filter: every upstream result is passed, declared or not
FilterAll(d, t) == d

\* The entries of d whose key is one of the callable's parameter names
Filter(d, t) == [p \in Tasks |-> IF p \in TaskParams(t) THEN d[p] ELSE Absent]

\* Task.__call__ as submitted by DAG.run: pool.submit(t, *args)
CallTask(a) == [how |-> "task", args |-> a, kwargs |-> EmptyDict]

\* Flow._execute_task(task, upstream_results)
ExecuteTask(t, upstream_results) ==
  IF Keys(upstream_results) = {} THEN CallTask(<<>>)
  ELSE IF Keys(Filter(upstream_results, t)) # {}
       THEN [how |-> "direct", args |-> <<>>,
             kwargs |-> Filter(upstream_results, t)]
       ELSE CallTask(<<>>)

\* FunctionalFlow._execute_node(node, results)
ExecuteNode(t, inputs, res) ==
  IF inputs = <<>> THEN CallTask(<<>>)
  ELSE IF Keys(Filter(res, t)) # {}
       THEN [how |-> "direct", args |-> <<>>, kwargs |-> Filter(res, t)]
       ELSE CallTask(<<>>)

\* What a worker calls when it picks node n up
Invocation(n) ==
  IF fe = "flow" THEN ExecuteTask(taskOf[n], snap[n])
  ELSE IF fe = "func" THEN ExecuteNode(taskOf[n], up[n], results)
  ELSE CallTask(args[n])

\* A faulty conditional check: the `when` predicate is never consulted
SkipsNever(hasWhen, a) == FALSE

\* A faulty conditional check: without a positional argument the task runs
SkipsOnlyWithArgs(hasWhen, a) == hasWhen /\ a # <<>> /\ ~WhenPred(a[1])

\* Task.__call__, the conditional execution check: the task is skipped when
\* `when` is set and there is no positional argument or when(args[0]) is false
Skips(hasWhen, a) == hasWhen /\ (a = <<>> \/ ~WhenPred(a[1]))

\* A faulty retry budget: off by one, `if attempt >= self.retries`
ExhaustedEarly(att, r) == att >= r

\* Task.__call__: `if attempt > self.retries` (the failure is final)
Exhausted(att, r) == att > r

Bump(l, kind) == [l EXCEPT ![kind] = @ + 1]

\* A faulty retry: the retry is logged but the wait is left out
RetryWaitNoSleep(l, r) == IF r > 0 THEN Bump(l, "retry") ELSE l

\* Task.__call__, before a retry: `if self.retries > 0:` log_task_retry(...),
\* time.sleep(total_delay)
RetryWait(l, r) == IF r > 0 THEN Bump(Bump(l, "retry"), "sleep") ELSE l

\* A faulty backoff: the wait grows by the factor instead of being
\* multiplied by it
BackoffAdds(cur, factor) == cur + factor

\* current_delay *= self.backoff
Backoff(cur, factor) == cur * factor

\* jitter = random.uniform(0, current_delay * 0.1), on the grid of the model
Jitter(cur) == 0 .. (cur \div 10)

Running == {m \in NodeIds : status[m] = "running"}

\* A faulty pool: max_workers is not handed to the executor, which then never
\* makes a submitted callable wait
WorkerFreeAlways(running, cap) == TRUE

\* ExecutorClass(max_workers=self.max_workers): a worker of the pool is free
WorkerFree(running, cap) == Cardinality(running) < cap

\* A worker of the pool picks a submitted node up and enters its callable,
\* up to the conditional execution check and log_task_start.
TaskStart(n) ==
  /\ status[n] = "queued"
  /\ WorkerFree(Running, maxWorkers)
  /\ LET inv == Invocation(n)
         skip == inv.how = "task" /\ Skips(when[taskOf[n]], inv.args)
     IN /\ mode' = [mode EXCEPT ![n] = inv.how]
        /\ args' = [args EXCEPT ![n] = IF skip THEN <<>> ELSE inv.args]
        /\ kwargs' = [kwargs EXCEPT ![n] = inv.kwargs]
        /\ snap' = [snap EXCEPT ![n] = EmptyDict]
        /\ status' = [status EXCEPT ![n] = IF skip THEN "skipped" ELSE "running"]
        /\ tlog' = [tlog EXCEPT ![n] =
                      IF skip THEN Bump(@, "skip")
                      ELSE IF inv.how = "task" THEN Bump(@, "start") ELSE @]
        /\ current_delay' = [current_delay EXCEPT ![n] =
                               IF skip \/ inv.how # "task" THEN @
                               ELSE delay[taskOf[n]]]
  /\ UNCHANGED << cfgVars, runVars, attempt, calls, fresult, exc, slept >>

\* The invocation returns or raises: its arguments and its local attempt
\* counter are gone.
Return(n) ==
  /\ args' = [args EXCEPT ![n] = <<>>]
  /\ kwargs' = [kwargs EXCEPT ![n] = EmptyDict]
  /\ attempt' = [attempt EXCEPT ![n] = 0]
  /\ current_delay' = [current_delay EXCEPT ![n] = 0]

\* The call of the body returns v: under Task.__call__ log_task_success, then
\* `return result`; the value becomes the result of the node's future.
Returned(n, v) ==
  /\ fresult' = [fresult EXCEPT ![n] = v]
  /\ calls' = [calls EXCEPT ![n] = @ + 1]
  /\ status' = [status EXCEPT ![n] = "succeeded"]
  /\ tlog' = [tlog EXCEPT ![n] =
                IF mode[n] = "task" THEN Bump(@, "success") ELSE @]
  /\ Return(n)

\* A faulty worker: it writes the value its body returned into the result
\* store itself
BodyReturnsStoring(n) ==
  /\ status[n] = "running"
  /\ \E v \in Values \cup {NoneV} :
       /\ Returned(n, v)
       /\ results' = [results EXCEPT ![taskOf[n]] = v]
  /\ UNCHANGED << cfgVars, pc, indegree, futures, batch, completed, dlog, error,
                  retval, mode, snap, exc, slept >>

\* The body is called and returns v.
BodyReturns(n) ==
  /\ status[n] = "running"
  /\ \E v \in Values \cup {NoneV} : Returned(n, v)
  /\ UNCHANGED << cfgVars, runVars, mode, snap, exc, slept >>

\* The body is called and raises.  Under Task.__call__ the attempt counter
\* decides between a retry (log_task_retry, sleep) and the final failure
\* (log_task_failure, raise); a direct call of task.func just raises.
BodyRaises(n) ==
  /\ status[n] = "running"
  /\ calls' = [calls EXCEPT ![n] = @ + 1]
  /\ LET e == BodyError(n, calls[n] + 1)
         r == retries[taskOf[n]]
         att == attempt[n] + 1
     IN IF mode[n] = "direct"
        THEN /\ status' = [status EXCEPT ![n] = "failed"]
             /\ exc' = [exc EXCEPT ![n] = e]
             /\ Return(n)
             /\ UNCHANGED << tlog, slept >>
        ELSE IF Exhausted(att, r)
        THEN /\ status' = [status EXCEPT ![n] = "failed"]
             /\ exc' = [exc EXCEPT ![n] = e]
             /\ tlog' = [tlog EXCEPT ![n] = Bump(@, "failure")]
             /\ Return(n)
             /\ UNCHANGED slept
        ELSE /\ attempt' = [attempt EXCEPT ![n] = att]
             /\ tlog' = [tlog EXCEPT ![n] = RetryWait(@, r)]
             /\ IF r > 0
                THEN \E jitter \in Jitter(current_delay[n]) :
                       /\ slept' = [slept EXCEPT ![n] =
                            Append(@, [base |-> current_delay[n],
                                       total |-> current_delay[n] + jitter])]
                       /\ current_delay' = [current_delay EXCEPT ![n] =
                            Backoff(@, backoff[taskOf[n]])]
                ELSE UNCHANGED << current_delay, slept >>
             /\ UNCHANGED << status, exc, args, kwargs >>
  /\ UNCHANGED << cfgVars, runVars, mode, snap, fresult >>

(***************************************************************************)
(* run(): DAG.run, Flow.run, FunctionalFlow.run.                           *)
(***************************************************************************)
\* The order in which _has_cycle iterates: the registry list, or a set
IterOrders ==
  IF fe = "dag" THEN {registry} ELSE Orders(nodes)

\* A faulty in-degree map: built from the downstream lists
InitialIndegreeSwapped(ns, ups, downs) ==
  [n \in NodeIds |-> IF n \in ns THEN Len(downs[n]) ELSE 0]

\* indegree = {t: len(t.upstream)}, respectively len(reverse_graph[t])
InitialIndegree(ns, ups, downs) ==
  [n \in NodeIds |-> IF n \in ns THEN Len(ups[n]) ELSE 0]

\* A faulty readiness test: off by one, `if indegree[down] <= 1`
IsReadyEarly(ind, d) == ind[d] <= 1

\* `if indegree[down] == 0`: the node is ready
IsReady(ind, d) == ind[d] = 0

\* ready = [t for t in tasks if indegree[t] == 0]
InitialReady(ind) == {n \in nodes : IsReady(ind, n)}

\* What run() returns: the result store (DAG.run, Flow.run), or the values
\* of the declared outputs, `tuple(results[out.name] for out in
\* self.outputs)`, the bare value when there is exactly one.
DictReturn == [shape |-> "dict", vals |-> <<>>]
OutputValues(res, outs) ==
  LET vals == [i \in DOMAIN outs |-> res[taskOf[outs[i]]]]
  IN [shape |-> IF Len(vals) = 1 THEN "value" ELSE "tuple", vals |-> vals]
ReturnValue ==
  IF fe = "func" THEN OutputValues(results, fflow.outputs) ELSE DictReturn
\* `return None if len(self.outputs) == 1 else tuple(None for _ in
\* self.outputs)`, respectively `return {}`
EmptyReturn ==
  IF fe # "func" THEN DictReturn
  ELSE [shape |-> IF Len(fflow.outputs) = 1 THEN "value" ELSE "tuple",
        vals |-> [i \in DOMAIN fflow.outputs |-> NoneV]]

\* `if not tasks: return {}` (no node: nothing to run)
RunEmpty ==
  /\ pc = "init" /\ fe # "call"
  /\ nodes = {}
  /\ pc' = "returned"
  /\ retval' = EmptyReturn
  /\ UNCHANGED << cfgVars, indegree, results, futures, batch, completed, dlog, error,
                  nodeVars >>

\* `if self._has_cycle(...): raise DAGCycleError`
RunCycle ==
  /\ pc = "init" /\ fe # "call"
  /\ nodes # {}
  /\ \E order \in IterOrders : HasCycle(down, order)
  /\ pc' = "raised"
  /\ error' = DAGCycleError
  /\ UNCHANGED << cfgVars, indegree, results, futures, batch, completed, dlog,
                  retval, nodeVars >>

\* The in-degree table is built and the nodes without upstream are submitted.
RunSubmit ==
  /\ pc = "init" /\ fe # "call"
  /\ nodes # {}
  /\ \E order \in IterOrders :
       ~HasCycle(down, order) /\ CycleCheck(down, order) # "KeyError"
  /\ LET ind == InitialIndegree(nodes, up, down)
         ready == InitialReady(ind)
     IN /\ indegree' = ind
        /\ futures' = ready
        /\ status' = [n \in NodeIds |-> IF n \in ready THEN "queued" ELSE status[n]]
        /\ args' = [n \in NodeIds |->
                      IF n \in ready /\ fe = "dag"
                      THEN [i \in DOMAIN up[n] |-> results[taskOf[up[n][i]]]]
                      ELSE args[n]]
  /\ pc' = "loop"
  /\ dlog' = [dlog EXCEPT !.start = @ + 1]
  /\ UNCHANGED << cfgVars, results, batch, completed, error, retval, mode,
                  snap, kwargs, attempt, calls, fresult, exc, tlog,
                  current_delay, slept >>

\* A faulty unlock loop: it handles the first downstream node only
UnlockLoopFirst(downs, ind, sub) ==
  IF downs = <<>> THEN [indegree |-> ind, submitted |-> sub]
  ELSE LET d == Head(downs)
           ind1 == [ind EXCEPT ![d] = @ - 1]
       IN [indegree |-> ind1,
           submitted |-> IF IsReady(ind1, d) THEN sub \cup {d} ELSE sub]

\* for down in adj[task]: indegree[down] -= 1; if indegree[down] == 0: submit
RECURSIVE UnlockLoop(_, _, _)
UnlockLoop(downs, ind, sub) ==
  IF downs = <<>> THEN [indegree |-> ind, submitted |-> sub]
  ELSE LET d == Head(downs)
           ind1 == [ind EXCEPT ![d] = @ - 1]
       IN UnlockLoop(Tail(downs), ind1,
                     IF IsReady(ind1, d) THEN sub \cup {d} ELSE sub)

\* A faulty argument list: the upstream results in reverse order
GatherArgsReversed(res, ups) ==
  [i \in DOMAIN ups |-> Get(res, taskOf[ups[Len(ups) + 1 - i]])]

\* args = [results.get(u.name) for u in down.upstream]
GatherArgs(res, ups) == [i \in DOMAIN ups |-> Get(res, taskOf[ups[i]])]

\* The result store after the completion of a node named `name` with `result`:
\* DAG.run and Flow.run store it `if result is not None`, FunctionalFlow.run
\* stores it always.
Store(frontend, res, name, result) ==
  IF frontend = "func" \/ result # NoneV
  THEN [res EXCEPT ![name] = result] ELSE res

\* A faulty orchestrator: the exception of a future is swallowed
FutureRaisesNever(st) == FALSE

\* fut.result() raises when the node's callable raised
FutureRaises(st) == st = "failed"

\* The futures as_completed() iterates over: those left of the current call,
\* or, when it is exhausted, a new call on the futures dict as it is now
Pending == IF batch = {} THEN futures ELSE batch

\* as_completed yields the future of n, which holds a result.
ProcessResult(n) ==
  /\ pc = "loop"
  /\ n \in Pending
  /\ status[n] \in Done
  /\ ~FutureRaises(status[n])
  /\ LET res == Store(fe, results, taskOf[n], fresult[n])
         u == UnlockLoop(down[n], indegree, {})
     IN /\ results' = res
        /\ indegree' = u.indegree
        /\ futures' = (futures \ {n}) \cup u.submitted
        /\ status' = [m \in NodeIds |->
                        IF m \in u.submitted THEN "queued" ELSE status[m]]
        /\ args' = [m \in NodeIds |->
                      IF m \in u.submitted /\ fe = "dag"
                      THEN GatherArgs(res, up[m])
                      ELSE args[m]]
        /\ snap' = [m \in NodeIds |->
                      IF m \in u.submitted /\ fe = "flow" THEN res ELSE snap[m]]
  /\ batch' = Pending \ {n}
  /\ completed' = completed + 1
  /\ UNCHANGED << cfgVars, pc, error, retval, dlog, mode, kwargs, attempt, calls,
                  fresult, exc, tlog, current_delay, slept >>

\* as_completed yields the future of n, which holds an exception: fut.result()
\* raises it and run() lets it propagate out of the `with` block.
ProcessFailure(n) ==
  /\ pc = "loop"
  /\ n \in Pending
  /\ status[n] \in Done
  /\ FutureRaises(status[n])
  /\ futures' = futures \ {n}
  /\ batch' = Pending \ {n}
  /\ error' = exc[n]
  /\ pc' = "aborting"
  /\ UNCHANGED << cfgVars, indegree, results, completed, dlog, retval, nodeVars >>

\* The pool's __exit__ (shutdown(wait=True)) returns once every submitted
\* node has finished; the exception then reaches the caller of run().
AbortDone ==
  /\ pc = "aborting"
  /\ \A n \in NodeIds : status[n] \notin {"queued", "running"}
  /\ pc' = "raised"
  /\ UNCHANGED << cfgVars, indegree, results, futures, batch, completed, dlog, error,
                  retval, nodeVars >>

\* `while futures` ends: every future was handled; run() returns.
RunReturn ==
  /\ pc = "loop"
  /\ futures = {}
  /\ pc' = "returned"
  /\ retval' = ReturnValue
  /\ dlog' = [dlog EXCEPT !.complete = @ + 1]
  /\ UNCHANGED << cfgVars, indegree, results, futures, batch, completed, error,
                  nodeVars >>

Next ==
  \/ RunEmpty
  \/ RunCycle
  \/ RunSubmit
  \/ \E n \in NodeIds : TaskStart(n)
  \/ \E n \in NodeIds : BodyReturns(n)
  \/ \E n \in NodeIds : BodyRaises(n)
  \/ \E n \in NodeIds : ProcessResult(n)
  \/ \E n \in NodeIds : ProcessFailure(n)
  \/ AbortDone
  \/ RunReturn

Spec == Init /\ [][Next]_vars

(***************************************************************************)
(* A Task invoked directly by a caller, again and again.                   *)
(***************************************************************************)
CallArgs == {<<>>} \cup {<<v>> : v \in Values \cup {NoneV}}

CallInit ==
  /\ fe = "call"
  /\ NoFunctional
  /\ PlainTasks
  /\ nodes = {1}
  /\ up = EmptyAdj
  /\ down = EmptyAdj
  /\ taskOf = [n \in NodeIds |-> n]
  /\ \E r \in 0 .. MaxCallRetries : retries = [t \in Tasks |-> r]
  /\ \E w \in BOOLEAN : when = [t \in Tasks |-> w]
  /\ maxWorkers = 1
  /\ pc = "call"
  /\ indegree = [n \in NodeIds |-> 0]
  /\ results = EmptyDict
  /\ futures = {}
  /\ batch = {}
  /\ completed = 0
  /\ dlog = NoDagLog
  /\ error = NoExc
  /\ retval = NoReturn
  /\ status = [n \in NodeIds |-> IF n = 1 THEN "queued" ELSE "pending"]
  /\ mode = [n \in NodeIds |-> "task"]
  /\ \E a \in CallArgs : args = [n \in NodeIds |-> IF n = 1 THEN a ELSE <<>>]
  /\ snap = [n \in NodeIds |-> EmptyDict]
  /\ kwargs = [n \in NodeIds |-> EmptyDict]
  /\ attempt = [n \in NodeIds |-> 0]
  /\ calls = [n \in NodeIds |-> 0]
  /\ fresult = [n \in NodeIds |-> NoneV]
  /\ exc = [n \in NodeIds |-> NoExc]
  /\ tlog = [n \in NodeIds |-> NoLog]
  /\ current_delay = [n \in NodeIds |-> 0]
  /\ slept = [n \in NodeIds |-> <<>>]
  /\ \E d \in Delays : delay = [t \in Tasks |-> d]
  /\ \E b \in Backoffs : backoff = [t \in Tasks |-> b]
  /\ NoFlows
  /\ NoStore

\* The invocation is over; the caller invokes the task again.  The counters
\* of calls and of logged events are those of the invocation under way.
CallAgain ==
  /\ fe = "call"
  /\ status[1] \in Done
  /\ status' = [status EXCEPT ![1] = "queued"]
  /\ \E a \in CallArgs : args' = [args EXCEPT ![1] = a]
  /\ calls' = [calls EXCEPT ![1] = 0]
  /\ fresult' = [fresult EXCEPT ![1] = NoneV]
  /\ exc' = [exc EXCEPT ![1] = NoExc]
  /\ tlog' = [tlog EXCEPT ![1] = NoLog]
  /\ slept' = [slept EXCEPT ![1] = <<>>]
  /\ UNCHANGED << cfgVars, runVars, mode, snap, kwargs, attempt, current_delay >>

NextTask ==
  \/ TaskStart(1)
  \/ BodyReturns(1)
  \/ BodyRaises(1)
  \/ CallAgain

SpecTask == CallInit /\ [][NextTask]_vars

(***************************************************************************)
(* The fan-out/fan-in pipeline, chain style, run by DAG.run.  The tasks    *)
(* are declared with @task():                                              *)
(*   1: def extract(): return 10          2: def transform1(x): return x*2 *)
(*   3: def transform2(x): return x + 5   4: def load(x, y): return x + y  *)
(* and chained by at most two statements of the forms a >> b, a >> [b, c]  *)
(* and [a, b] >> c, in which the left tasks are declared before the right  *)
(* ones.  transform1 may carry a run condition.                            *)
(***************************************************************************)
FanNodes == 1 .. FanTasks

\* The (left, right) pairs of one statement, in the order __rshift__ and
\* __rrshift__ record them
Statements ==
  {<< <<a, b>> >> : a \in FanNodes, b \in FanNodes} \cup
  {<< <<a, b>>, <<a, c>> >> : a \in FanNodes, b \in FanNodes, c \in FanNodes} \cup
  {<< <<a, c>>, <<b, c>> >> : a \in FanNodes, b \in FanNodes, c \in FanNodes}

Forward(st) ==
  /\ \A i \in DOMAIN st : st[i][1] < st[i][2]
  /\ \A i, j \in DOMAIN st : i # j => st[i] # st[j]

Programs ==
  LET F == {st \in Statements : Forward(st)}
  IN {<<>>} \cup F \cup {s1 \o s2 : s1 \in F, s2 \in F}

\* The call t(*a) does not raise TypeError: the arity fits and no operand of
\* the arithmetic is None
FanBodyOk(t, a) ==
  /\ Len(a) = (IF t = 1 THEN 0 ELSE IF t = 4 THEN 2 ELSE 1)
  /\ \A i \in DOMAIN a : a[i] # NoneV

\* The value the body of t returns on the arguments a
FanBody(t, a) ==
  IF t = 1 THEN 10
  ELSE IF t = 2 THEN a[1] * 2
  ELSE IF t = 3 THEN a[1] + 5
  ELSE a[1] + a[2]

FanInit ==
  /\ fe = "dag"
  /\ NoFunctional
  /\ nodes = FanNodes
  /\ \E pipeline \in Programs :
       LET g == Rshift([graph |-> EmptyAdj, reverse_graph |-> EmptyAdj], pipeline)
       IN /\ up = g.reverse_graph
          /\ down = g.graph
          /\ upstream = g.reverse_graph
          /\ downstream = g.graph
  /\ registry = Registered(FanTasks)
  /\ NoProgram
  /\ taskOf = [n \in NodeIds |-> n]
  /\ retries = [t \in Tasks |-> 0]
  /\ \E w \in BOOLEAN : when = [t \in Tasks |-> w /\ t = 2]
  /\ maxWorkers \in WorkerCaps
  /\ RunInit
  /\ NoFlows
  /\ NoWait
  /\ NoStore

\* The body is called on the arguments of the invocation: it returns its
\* value, or raises TypeError.
BodyComputes(n) ==
  /\ status[n] = "running"
  /\ IF FanBodyOk(taskOf[n], args[n])
     THEN /\ Returned(n, FanBody(taskOf[n], args[n]))
          /\ UNCHANGED << cfgVars, runVars, mode, snap, exc, slept >>
     ELSE BodyRaises(n)

NextFan ==
  \/ RunSubmit
  \/ \E n \in NodeIds : TaskStart(n)
  \/ \E n \in NodeIds : BodyComputes(n)
  \/ \E n \in NodeIds : ProcessResult(n)
  \/ \E n \in NodeIds : ProcessFailure(n)
  \/ AbortDone
  \/ RunReturn

SpecFan == FanInit /\ [][NextFan]_vars

(***************************************************************************)
(* The builder (flow.py): a Flow is built call by call from tasks declared *)
(* with a plain @task(), then run.  Two flows are built from the same      *)
(* tasks; run() is called on a flow right after an add or a merge.         *)
(***************************************************************************)
BuildInit ==
  /\ fe = "build"
  /\ NoFunctional
  /\ PlainTasks
  /\ nodes = {}
  /\ up = EmptyAdj
  /\ down = EmptyAdj
  /\ taskOf = [n \in NodeIds |-> n]
  /\ retries = [t \in Tasks |-> 0]
  /\ when = [t \in Tasks |-> FALSE]
  /\ maxWorkers = 2
  /\ pc = "build"
  /\ RunFresh
  /\ NoFlows
  /\ NoWait
  /\ NoStore

\* A faulty builder: the graph dictionaries are class attributes, shared by
\* every instance
SetFlowShared(fs, i, f) == [j \in Instances |-> f]

\* The lists and dictionaries of __init__ are instance attributes: a call
\* on instance i leaves f in instance i alone
SetFlow(fs, i, f) == [fs EXCEPT ![i] = f]

\* flows[i].add(t), flows[i].branch(...), flows[i].merge(t): the call o
FlowCall(i, o) ==
  /\ fe = "build"
  /\ ncalls < MaxCalls
  /\ flows' = SetFlow(flows, i, FlowApply(flows[i], o))
  /\ lastcall' = [flow |-> i, op |-> o.op, ts |-> o.ts, bp |-> flows[i].bp,
                  raised |-> FlowRaises(flows[i], o)]
  /\ ncalls' = ncalls + 1
  /\ UNCHANGED << fe, nodes, up, down, taskOf, retries, when, delay, backoff,
                  maxWorkers,
                  funcVars, taskVars, chainVars, stateVars, runVars,
                  nodeVars >>

\* flows[i].run() is entered: `all_tasks = set(self.tasks)` and the
\* transitive tasks
RunStart(i) ==
  /\ fe = "build"
  /\ lastcall.flow = i /\ lastcall.op \in {"add", "merge"} /\ ~lastcall.raised
  /\ fe' = "flow"
  /\ nodes' = CollectTransitive(flows[i].graph, SeqToSet(flows[i].tasks))
  /\ up' = flows[i].reverse_graph
  /\ down' = flows[i].graph
  /\ pc' = "init"
  /\ UNCHANGED << taskOf, retries, when, delay, backoff, maxWorkers, flowVars, funcVars,
                  taskVars, chainVars, stateVars, indegree, results, futures, batch, completed, dlog, error, retval,
                  nodeVars >>

\* inp = Layer(t1)(), out1 = Layer(t2)(inp), out2 = Layer(t3)(inp)
TwoOutputs == [n \in NodeIds |-> IF n \in {2, 3} THEN <<1>> ELSE <<>>]

\* FunctionalFlow(inputs=inp, outputs=outs) over the tasks of the builders
FuncConstruct(outs) ==
  /\ fe = "build"
  /\ fflow.all_nodes = {}
  /\ applied' = TwoOutputs
  /\ fflow' = FunctionalFlowNew(TwoOutputs, <<1>>, outs)
  /\ UNCHANGED << fe, nodes, up, down, taskOf, retries, when, delay, backoff,
                  maxWorkers,
                  flowVars, taskVars, chainVars, stateVars, runVars,
                  nodeVars >>

NextFlow ==
  \/ \E i \in Instances : \E o \in BuilderOps : FlowCall(i, o)
  \/ \E outs \in {<<2>>, <<2, 3>>} : FuncConstruct(outs)
  \/ \E i \in Instances : RunStart(i)
  \/ RunCycle
  \/ RunSubmit
  \/ \E n \in nodes : TaskStart(n)
  \/ \E n \in nodes : BodyReturns(n)
  \/ \E n \in nodes : BodyRaises(n)
  \/ \E n \in nodes : ProcessResult(n)
  \/ \E n \in nodes : ProcessFailure(n)
  \/ AbortDone
  \/ RunReturn

SpecFlow == BuildInit /\ [][NextFlow]_vars

(***************************************************************************)
(* The functional style (functional.py): three AppliedTask nodes are       *)
(* constructed one after the other, each on nodes constructed before it,   *)
(* with plain @task() tasks; a FunctionalFlow is constructed with some of  *)
(* them as inputs and as outputs, and run.  With `shared` the third node   *)
(* applies the task of the first one.                                      *)
(***************************************************************************)
FuncNodes == 1 .. NumApplied

\* Layer(t)(), Layer(t)(a), Layer(t)(a, b), on the nodes ns
InputTuples(ns) ==
  {<<>>} \cup {<<a>> : a \in ns} \cup {<<a, b>> : a \in ns, b \in ns}

AppliedNodes ==
  {app \in [NodeIds -> InputTuples(FuncNodes)] :
     \A n \in NodeIds :
       IF n \in FuncNodes THEN app[n] \in InputTuples(1 .. (n - 1))
       ELSE app[n] = <<>>}

\* inputs=(), inputs=a; outputs=(), outputs=a, outputs=(a, b)
FlowInputs == {<<>>} \cup {<<a>> : a \in FuncNodes}
FlowOutputs == InputTuples(FuncNodes)

FuncFlowInit ==
  /\ fe = "func"
  /\ PlainTasks
  /\ \E app \in AppliedNodes : \E ins \in FlowInputs : \E outs \in FlowOutputs :
       /\ applied = app
       /\ fflow = FunctionalFlowNew(app, ins, outs)
  /\ nodes = fflow.all_nodes
  /\ up = fflow.reverse_graph
  /\ down = fflow.graph
  /\ \E shared \in BOOLEAN :
       taskOf = [n \in NodeIds |-> IF shared /\ n = NumApplied THEN 1 ELSE n]
  /\ retries = [t \in Tasks |-> 0]
  /\ when = [t \in Tasks |-> FALSE]
  /\ maxWorkers = 2
  /\ RunInit
  /\ NoFlows
  /\ NoWait
  /\ NoStore

NextFunc ==
  \/ RunEmpty
  \/ RunSubmit
  \/ \E n \in nodes : TaskStart(n)
  \/ \E n \in nodes : BodyReturns(n)
  \/ \E n \in nodes : BodyRaises(n)
  \/ \E n \in nodes : ProcessResult(n)
  \/ \E n \in nodes : ProcessFailure(n)
  \/ AbortDone
  \/ RunReturn

SpecFunc == FuncFlowInit /\ [][NextFunc]_vars

(***************************************************************************)
(* Chain style, built twice (task.py): a program declares prog.k tasks     *)
(* with @task() and chains them with the statements prog.stmts, clears the *)
(* registry and builds the chain again: it runs the declarations of the    *)
(* names in prog.redeclare again and chains the Task objects its names are *)
(* then bound to; a name that is not declared again keeps its object.  The *)
(* object of the second declaration of name i is ChainTasks + i.  DAG.run  *)
(* may be called after either build; it runs over the registry.            *)
(***************************************************************************)
ChainPrograms ==
  UNION {[k : {k}, stmts : EdgeSeqs(1 .. k), redeclare : SUBSET (1 .. k)] :
           k \in 1 .. ChainTasks}

\* The Task object the program's i-th name is bound to
BoundTo(i) ==
  IF i \in prog.redeclare /\ first # NoGraph THEN ChainTasks + i ELSE i

\* `t.name` of the tasks of a list
NamesOf(ts) == [i \in 1 .. Len(ts) |-> taskOf[ts[i]]]

\* The graph the program holds, by name: the registered tasks and the
\* upstream and downstream lists of the program's tasks
ChainGraph ==
  [names |-> NamesOf(registry),
   up |-> [i \in 1 .. prog.k |-> NamesOf(upstream[BoundTo(i)])],
   down |-> [i \in 1 .. prog.k |-> NamesOf(downstream[BoundTo(i)])]]

ChainInit ==
  /\ fe = "chain"
  /\ prog \in ChainPrograms
  /\ first = NoGraph
  /\ registry = <<>>
  /\ upstream = EmptyAdj
  /\ downstream = EmptyAdj
  /\ NoFunctional
  /\ nodes = {}
  /\ up = EmptyAdj
  /\ down = EmptyAdj
  /\ taskOf = [n \in NodeIds |-> IF n > ChainTasks THEN n - ChainTasks ELSE n]
  /\ retries = [t \in Tasks |-> 0]
  /\ when = [t \in Tasks |-> FALSE]
  /\ maxWorkers = 2
  /\ pc = "script"
  /\ RunFresh
  /\ NoFlows
  /\ NoWait
  /\ NoStore

\* The @task() declarations of the program: Task.__init__ gives each new
\* object empty lists and appends it to the registry
TaskDeclare ==
  /\ fe = "chain"
  /\ pc = "script" \/ (pc = "cleared" /\ prog.redeclare # {})
  /\ LET base == IF pc = "script" THEN 0 ELSE ChainTasks
         names == IF pc = "script" THEN 1 .. prog.k ELSE prog.redeclare
         new == SelectSeq([i \in 1 .. prog.k |-> base + i],
                          LAMBDA o : o - base \in names)
     IN /\ registry' = registry \o new
        /\ upstream' = [n \in NodeIds |->
                          IF n \in SeqToSet(new) THEN <<>> ELSE upstream[n]]
        /\ downstream' = [n \in NodeIds |->
                            IF n \in SeqToSet(new) THEN <<>>
                            ELSE downstream[n]]
  /\ pc' = "declared"
  /\ UNCHANGED << fe, nodes, up, down, taskOf, retries, when, delay, backoff,
                  maxWorkers,
                  flowVars, funcVars, chainVars, stateVars, indegree, results,
                  futures, batch, completed, dlog, error, retval, nodeVars >>

\* The >> statements of the program, on the objects its names are bound to
ChainStatements ==
  /\ fe = "chain"
  /\ pc = "declared" \/ (pc = "cleared" /\ prog.redeclare = {})
  /\ LET g == Rshift([graph |-> downstream, reverse_graph |-> upstream],
                     [j \in 1 .. Len(prog.stmts) |->
                        << BoundTo(prog.stmts[j][1]),
                           BoundTo(prog.stmts[j][2]) >>])
     IN /\ upstream' = g.reverse_graph
        /\ downstream' = g.graph
  /\ pc' = IF first = NoGraph THEN "built" ELSE "rebuilt"
  /\ UNCHANGED << fe, nodes, up, down, taskOf, retries, when, delay, backoff,
                  maxWorkers,
                  flowVars, funcVars, registry, chainVars, stateVars, indegree,
                  results, futures, batch, completed, dlog, error, retval,
                  nodeVars >>

\* Task.clear_registry(): `cls._all_tasks.clear()`; the graph of the first
\* build is kept for the comparison
ClearRegistry ==
  /\ fe = "chain"
  /\ pc = "built"
  /\ registry' = <<>>
  /\ first' = ChainGraph
  /\ pc' = "cleared"
  /\ UNCHANGED << fe, nodes, up, down, taskOf, retries, when, delay, backoff,
                  maxWorkers,
                  flowVars, funcVars, upstream, downstream, prog, stateVars,
                  indegree, results, futures, batch, completed, dlog, error,
                  retval, nodeVars >>

\* `self._has_cycle(tasks)` reaches a downstream task that is not in the
\* registry: `state[task]` raises KeyError, which run() lets propagate
RunKeyError ==
  /\ pc = "init" /\ fe # "call"
  /\ nodes # {}
  /\ \E order \in IterOrders : CycleCheck(down, order) = "KeyError"
  /\ pc' = "raised"
  /\ error' = KeyError
  /\ UNCHANGED << cfgVars, indegree, results, futures, batch, completed, dlog,
                  retval, nodeVars >>

\* DAG(...).run() is entered: `tasks = Task._all_tasks`, and the edges are
\* the upstream and downstream lists of these tasks
DagRunStart ==
  /\ fe = "chain"
  /\ pc \in {"built", "rebuilt"}
  /\ fe' = "dag"
  /\ nodes' = SeqToSet(registry)
  /\ up' = upstream
  /\ down' = downstream
  /\ pc' = "init"
  /\ UNCHANGED << taskOf, retries, when, delay, backoff, maxWorkers, flowVars, funcVars,
                  taskVars, chainVars, stateVars, indegree, results, futures,
                  batch, completed, dlog, error, retval, nodeVars >>

NextChain ==
  \/ TaskDeclare
  \/ ChainStatements
  \/ ClearRegistry
  \/ DagRunStart
  \/ RunEmpty
  \/ RunCycle
  \/ RunKeyError
  \/ RunSubmit
  \/ \E n \in NodeIds : TaskStart(n)
  \/ \E n \in NodeIds : BodyReturns(n)
  \/ \E n \in NodeIds : BodyRaises(n)
  \/ \E n \in NodeIds : ProcessResult(n)
  \/ \E n \in NodeIds : ProcessFailure(n)
  \/ AbortDone
  \/ RunReturn

SpecChain == ChainInit /\ [][NextChain]_vars

(***************************************************************************)
(* The state store (state.py): an in-memory StateManager, and the wrapper  *)
(* TaskCache puts around a function.  The cache is a dictionary: a         *)
(* function whose domain is the set of keys it holds.  The clock advances  *)
(* by whole seconds.  The function named by key 1 returns 1, the function  *)
(* named by key 2 returns None.                                            *)
(***************************************************************************)
StoreKeys == 1 .. 2

\* self._cache[key] = entry
Put(c, k, e) == [j \in DOMAIN c \cup {k} |-> IF j = k THEN e ELSE c[j]]

\* del self._cache[key]
Del(c, k) == [j \in DOMAIN c \ {k} |-> c[j]]

\* A faulty expiry test: `if age >= entry["ttl"]`
ExpiredAtTtl(e, t) == e.ttl # TtlNone /\ t - e.timestamp >= e.ttl

\* `entry["ttl"] is not None` and `age > entry["ttl"]`
Expired(e, t) == e.ttl # TtlNone /\ t - e.timestamp > e.ttl

\* StateManager.set at time t
SmSet(s, k, v, ttl, t) ==
  LET ttl_to_use == IF ttl # TtlNone THEN ttl ELSE s.default_ttl
  IN [s EXCEPT !.cache = Put(@, k, [value |-> v, timestamp |-> t,
                                    ttl |-> ttl_to_use])]

\* StateManager.get at time t: what it returns, and the store it leaves
SmGet(s, k, default, t) ==
  IF k \notin DOMAIN s.cache THEN [ret |-> default, sm |-> s]
  ELSE IF Expired(s.cache[k], t)
       THEN [ret |-> default, sm |-> [s EXCEPT !.cache = Del(@, k)]]
       ELSE [ret |-> s.cache[k].value, sm |-> s]

\* StateManager.has: `return self.get(key) is not None`
SmHas(s, k, t) ==
  LET g == SmGet(s, k, NoneV, t) IN [ret |-> g.ret # NoneV, sm |-> g.sm]

\* StateManager.delete
SmDelete(s, k) ==
  IF k \in DOMAIN s.cache
  THEN [ret |-> TRUE, sm |-> [s EXCEPT !.cache = Del(@, k)]]
  ELSE [ret |-> FALSE, sm |-> s]

\* What the body of the function named k returns
FuncResult(k) == IF k = 1 THEN 1 ELSE NoneV

\* TaskCache.__call__.wrapper of the function named k, at time t: what it
\* returns, whether the body ran, and the store it leaves
Wrapper(s, tc, k, t) ==
  LET cached == SmGet(s, k, NoneV, t)
  IN IF cached.ret # NoneV
     THEN [ret |-> cached.ret, ran |-> FALSE, sm |-> cached.sm]
     ELSE [ret |-> FuncResult(k), ran |-> TRUE,
           sm |-> SmSet(cached.sm, k, FuncResult(k), tc.ttl, t)]

StoreInit ==
  /\ fe = "store"
  /\ \E dt \in {TtlNone, 1} : sm = StateManagerNew(dt)
  /\ tcache \in [ttl : {TtlNone, 1}]
  /\ now = 0
  /\ lastop = NoOp
  /\ PlainTasks
  /\ NoFunctional
  /\ nodes = {}
  /\ up = EmptyAdj
  /\ down = EmptyAdj
  /\ taskOf = [n \in NodeIds |-> n]
  /\ retries = [t \in Tasks |-> 0]
  /\ when = [t \in Tasks |-> FALSE]
  /\ maxWorkers = 2
  /\ pc = "store"
  /\ RunFresh
  /\ NoFlows
  /\ NoWait

storeFrame == << fe, nodes, up, down, taskOf, retries, when, maxWorkers,
                flowVars, funcVars, taskVars, chainVars, runVars, nodeVars,
                delay, backoff >>

\* sm.set(k, v, ttl=ttl)
StateSet(k, v, ttl) ==
  /\ fe = "store"
  /\ sm' = SmSet(sm, k, v, ttl, now)
  /\ lastop' = [op |-> "set", key |-> k, arg |-> ttl, ret |-> v,
                flag |-> FALSE]
  /\ UNCHANGED << tcache, now, storeFrame >>

\* sm.get(k, default)
StateGet(k, default) ==
  /\ fe = "store"
  /\ LET g == SmGet(sm, k, default, now)
     IN /\ sm' = g.sm
        /\ lastop' = [op |-> "get", key |-> k, arg |-> default,
                      ret |-> g.ret, flag |-> FALSE]
  /\ UNCHANGED << tcache, now, storeFrame >>

\* sm.has(k): flag is what it returned
StateHas(k) ==
  /\ fe = "store"
  /\ LET h == SmHas(sm, k, now)
     IN /\ sm' = h.sm
        /\ lastop' = [op |-> "has", key |-> k, arg |-> NoneV, ret |-> NoneV,
                      flag |-> h.ret]
  /\ UNCHANGED << tcache, now, storeFrame >>

\* sm.delete(k): flag is what it returned
StateDelete(k) ==
  /\ fe = "store"
  /\ LET d == SmDelete(sm, k)
     IN /\ sm' = d.sm
        /\ lastop' = [op |-> "delete", key |-> k, arg |-> NoneV,
                      ret |-> NoneV, flag |-> d.ret]
  /\ UNCHANGED << tcache, now, storeFrame >>

\* A call of the wrapped function named k: flag tells whether the body ran
CachedCall(k) ==
  /\ fe = "store"
  /\ LET w == Wrapper(sm, tcache, k, now)
     IN /\ sm' = w.sm
        /\ lastop' = [op |-> "call", key |-> k, arg |-> NoneV, ret |-> w.ret,
                      flag |-> w.ran]
  /\ UNCHANGED << tcache, now, storeFrame >>

\* A second passes
Tick ==
  /\ fe = "store"
  /\ now < MaxTime
  /\ now' = now + 1
  /\ lastop' = [NoOp EXCEPT !.op = "tick"]
  /\ UNCHANGED << sm, tcache, storeFrame >>

NextStore ==
  \/ \E k \in StoreKeys : \E v \in {NoneV, 1} : \E ttl \in {TtlNone, -1, 0, 1} :
       StateSet(k, v, ttl)
  \/ \E k \in StoreKeys : \E default \in {NoneV, 2} : StateGet(k, default)
  \/ \E k \in StoreKeys : StateHas(k)
  \/ \E k \in StoreKeys : StateDelete(k)
  \/ \E k \in StoreKeys : CachedCall(k)
  \/ Tick

SpecStore == StoreInit /\ [][NextStore]_vars

(***************************************************************************)
(* Properties of the runners.                                              *)
(***************************************************************************)
Runners == {"dag", "flow", "func"}

\* The nodes reachable from the nodes of S along downstream edges, S included
RECURSIVE ReachFrom(_)
ReachFrom(S) ==
  LET T == S \cup UNION {SeqToSet(down[m]) : m \in S}
  IN IF T = S THEN S ELSE ReachFrom(T)

\* The nodes reachable from n along one downstream edge or more
Descendants(n) == ReachFrom(SeqToSet(down[n]))

OnCycle(n) == n \in Descendants(n)

Cyclic == \E n \in nodes : OnCycle(n)

\* The orchestrator has read the outcome of u's future
Processed(u) == status[u] \in Done /\ u \notin futures

\* C1 (acyclicity gate): whenever the graph a runner is about to execute
\* contains a cycle, run() can only raise DAGCycleError: it never enters the
\* scheduling loop, never returns, and no node is submitted or has its body
\* invoked, before or after the error.
AcyclicityGate ==
  (fe \in Runners /\ Cyclic) =>
    /\ pc \in {"init", "raised"}
    /\ pc = "init" => ENABLED RunCycle /\ ~ENABLED RunSubmit /\ ~ENABLED RunEmpty
    /\ pc = "raised" => error = DAGCycleError
    /\ \A n \in NodeIds : status[n] = "pending" /\ calls[n] = 0

\* C1 happens: DAG.run has raised DAGCycleError on a graph made of a two-node
\* cycle and a third node outside it.
AcyclicityGateWitness ==
  /\ fe = "dag"
  /\ pc = "raised"
  /\ error = DAGCycleError
  /\ \E a, b, c \in nodes :
       /\ a # b /\ c \notin {a, b}
       /\ b \in SeqToSet(down[a]) /\ a \in SeqToSet(down[b])
       /\ up[c] = <<>> /\ down[c] = <<>>

\* C2 (topological correctness): a node that has been submitted (and so any
\* node whose body has been invoked) has in-degree zero, and every one of its
\* upstream nodes has finished, succeeded or skipped, and has been processed
\* by the orchestrator.
TopologicalOrder ==
  fe \in Runners =>
    \A n \in nodes :
      (status[n] # "pending" \/ calls[n] > 0) =>
        /\ indegree[n] = 0
        /\ \A i \in DOMAIN up[n] :
             /\ status[up[n][i]] \in {"succeeded", "skipped"}
             /\ Processed(up[n][i])

\* b to the power k
RECURSIVE Pow(_, _)
Pow(b, k) == IF k = 0 THEN 1 ELSE b * Pow(b, k - 1)

\* C38 (backoff schedule and reset): in an invocation of a Task, the i-th
\* wait (i = 1..retries) has the base delay * backoff^(i-1) and lasts the
\* base plus a jitter between 0 and a tenth of the base; the attempt counter
\* and the current delay belong to the invocation: whenever an invocation
\* passes the conditional check, the first or a later one, after a success
\* or a failure, it starts with attempt 0 and the base wait `delay`.
BackoffSchedule ==
  /\ [](fe = "call" =>
          /\ Len(slept[1]) <= retries[1]
          /\ \A i \in DOMAIN slept[1] :
               /\ slept[1][i].base = delay[1] * Pow(backoff[1], i - 1)
               /\ slept[1][i].total >= slept[1][i].base
               /\ 10 * (slept[1][i].total - slept[1][i].base) <= slept[1][i].base
          /\ status[1] = "running" =>
               /\ attempt[1] = Len(slept[1])
               /\ current_delay[1] = delay[1] * Pow(backoff[1], attempt[1]))
  /\ [][ (fe = "call" /\ status[1] = "queued" /\ status'[1] = "running") =>
          /\ attempt'[1] = 0
          /\ current_delay'[1] = delay[1]
          /\ slept'[1] = <<>> ]_vars

\* C38 happens: an invocation has waited twice, the second time on a base
\* that the backoff made larger and with a jitter.
BackoffScheduleWitness ==
  /\ fe = "call"
  /\ status[1] = "running"
  /\ Len(slept[1]) = 2
  /\ slept[1][2].base > slept[1][1].base
  /\ slept[1][2].total > slept[1][2].base

\* The orchestrator has read a result from u's future and run its unlock loop
Handled(u) == status[u] \in {"succeeded", "skipped"} /\ u \notin futures

\* The upstream edges of n whose source has not been handled yet
OpenEdges(n) == {i \in DOMAIN up[n] : ~Handled(up[n][i])}

\* C37 (in-degree bookkeeping): from the moment the in-degree table is built,
\* indegree[n] is the number of upstream edges of n whose source has not been
\* handled by the orchestrator, and it is never negative; a node is submitted
\* in exactly the step in which its in-degree becomes zero (the first step of
\* the run for a node without upstream), and an in-degree that is zero stays
\* zero, so that it reaches zero once.
IndegreeBookkeeping ==
  /\ [](( /\ fe \in Runners
          /\ pc \in {"loop", "aborting", "raised", "returned"}
          /\ error \notin {DAGCycleError, KeyError} ) =>
          \A n \in nodes :
            /\ indegree[n] >= 0
            /\ indegree[n] = Cardinality(OpenEdges(n)))
  /\ [][ (fe \in Runners /\ fe' = fe) =>
          \A n \in nodes :
            /\ (status[n] = "pending" /\ status'[n] = "queued") <=>
                 /\ indegree'[n] = 0
                 /\ (pc = "init" /\ pc' = "loop") \/ indegree[n] > 0
            /\ (pc # "init" /\ indegree[n] = 0) => indegree'[n] = 0 ]_vars

\* C37 happens: the completion of one of the two upstream nodes of a node has
\* been handled and has left the in-degree of that node at one.
IndegreeBookkeepingWitness ==
  /\ fe \in Runners /\ pc = "loop"
  /\ \E n \in nodes :
       /\ Len(up[n]) = 2 /\ indegree[n] = 1
       /\ Cardinality(OpenEdges(n)) = 1
       /\ status[n] = "pending"

\* C39 (run lifecycle events): in a run over at least one node, the
\* run-start event is logged before any node is submitted or started; the
\* progress counter grows by one exactly in the steps that handle a
\* completion (succeeded or skipped) and never exceeds the number of nodes;
\* the run-complete event is logged at most once, only when every node has
\* completed and been handled, by every run that returns and by no run that
\* raises.
RunLifecycle ==
  /\ []((fe \in Runners /\ nodes # {}) =>
          /\ (\E n \in nodes : status[n] # "pending" \/ tlog[n].start > 0) =>
               dlog.start = 1
          /\ completed <= Cardinality(nodes)
          /\ dlog.complete <= 1
          /\ dlog.complete = 1 =>
               /\ pc = "returned"
               /\ completed = Cardinality(nodes)
               /\ \A n \in nodes : Handled(n)
          /\ pc = "returned" => dlog.complete = 1
          /\ pc \in {"aborting", "raised"} => dlog.complete = 0)
  /\ [][ (fe \in Runners /\ fe' = fe) =>
          /\ completed' \in {completed, completed + 1}
          /\ completed' = completed + 1 <=>
               \E n \in nodes : ~Handled(n) /\ Handled(n)' ]_vars

\* C2 happens: the body of a node with two distinct upstream nodes is running.
TopologicalOrderWitness ==
  \E n \in nodes :
    /\ status[n] = "running"
    /\ Len(up[n]) = 2
    /\ up[n][1] # up[n][2]

FailureStopsDownstream ==
  fe \in Runners =>
    \A n \in nodes :
      status[n] = "failed" =>
        \A d \in Descendants(n) : status[d] = "pending" /\ calls[d] = 0

\* C4 happens: a node with a descendant has failed while a node outside its
\* descendants is still running, and the run is over for the orchestrator.
FailureStopsDownstreamWitness ==
  /\ pc = "aborting"
  /\ \E n, o \in nodes :
       /\ status[n] = "failed"
       /\ Descendants(n) # {}
       /\ o \notin Descendants(n)
       /\ status[o] = "running"

(***************************************************************************)
(* Properties of one invocation of a Task (retry policy).                  *)
(***************************************************************************)
\* C5 (retry exhaustion): while an invocation is under way every call of the
\* body so far has raised and has been followed by one retry event and one
\* wait, within the budget; an invocation that fails for good has called the
\* body exactly retries + 1 times, logged exactly retries retry events,
\* waited exactly retries times, logged exactly one failure event and raises
\* the exception of the last call (with retries = 0: one call, no wait).
RetryExhaustion ==
  \A n \in nodes :
    mode[n] = "task" =>
      LET r == retries[taskOf[n]]
      IN /\ status[n] = "running" =>
              /\ calls[n] = attempt[n]
              /\ calls[n] <= r
              /\ tlog[n].retry = calls[n]
              /\ tlog[n].sleep = calls[n]
              /\ tlog[n].failure = 0
         /\ status[n] = "failed" =>
              /\ calls[n] = r + 1
              /\ tlog[n].retry = r
              /\ tlog[n].sleep = r
              /\ tlog[n].failure = 1
              /\ tlog[n].success = 0
              /\ exc[n] = BodyError(n, r + 1)

\* C5 happens: an invocation with the largest retry budget has failed for
\* good, after retries.
RetryExhaustionWitness ==
  /\ fe = "call"
  /\ status[1] = "failed"
  /\ retries[1] = MaxCallRetries
  /\ calls[1] > 1

\* C6 (retry then succeed): an invocation that completes with a value has
\* seen the body raise on its first k calls, k <= retries, and return on call
\* k + 1: exactly k retry events, exactly k waits, one success event and no
\* failure event, and no exception is left to raise.
RetryThenSucceed ==
  \A n \in nodes :
    (mode[n] = "task" /\ status[n] = "succeeded") =>
      LET k == calls[n] - 1
      IN /\ k >= 0
         /\ k <= retries[taskOf[n]]
         /\ tlog[n].retry = k
         /\ tlog[n].sleep = k
         /\ tlog[n].success = 1
         /\ tlog[n].failure = 0
         /\ exc[n] = NoExc
         /\ fresult[n] \in Values \cup {NoneV}

\* C6 happens: with retries = 3 the body has raised twice and then returned a
\* value on the third call.
RetryThenSucceedWitness ==
  /\ fe = "call"
  /\ status[1] = "succeeded"
  /\ retries[1] = 3
  /\ calls[1] = 3
  /\ fresult[1] = 2

(***************************************************************************)
(* Properties of the runners: retry policy, run condition, result store.   *)
(***************************************************************************)
\* C7 (retry policy in every runner): a node that has failed for good has
\* had its body invoked retries + 1 times, whichever runner executes it and
\* whether it is a root or receives upstream results.
RetryInEveryRunner ==
  fe \in Runners =>
    \A n \in nodes :
      status[n] = "failed" => calls[n] = retries[taskOf[n]] + 1

\* The value the result store holds for the first upstream node of n
FirstUpstreamValue(n) == Get(results, taskOf[up[n][1]])

\* C8 (run condition in every runner): a node whose task has a `when`
\* predicate has its body invoked (the call is under way or over) only if it
\* has an upstream node and the predicate is true of the first upstream value.
WhenInEveryRunner ==
  fe \in Runners =>
    \A n \in nodes :
      (when[taskOf[n]] /\ (status[n] = "running" \/ calls[n] > 0)) =>
        /\ up[n] # <<>>
        /\ WhenPred(FirstUpstreamValue(n))

\* The number of upstream edges of d whose source is not processed yet
Unprocessed(d) == Cardinality({i \in DOMAIN up[d] : ~Processed(up[d][i])})

NoEntryForSkipped ==
  fe \in Runners =>
    /\ \A n \in nodes :
         status[n] = "skipped" => results[taskOf[n]] = Absent
    /\ \A k \in Keys(results) :
         \E n \in nodes :
           taskOf[n] = k /\ status[n] = "succeeded" /\ Processed(n)

\* C11 (a None result is kept, DAG.run): a node that succeeded with a body
\* that returned None, once its completion is handled, has its name as a key
\* of the result store, mapped to None.
NoneResultKept ==
  fe = "dag" =>
    \A n \in nodes :
      (status[n] = "succeeded" /\ fresult[n] = NoneV /\ Processed(n)) =>
        results[taskOf[n]] = NoneV

WriteOnceSubmitOnce ==
  [][ /\ \A n \in nodes :
           (status'[n] = "queued" /\ status[n] # "queued") => status[n] = "pending"
      /\ \A k \in Keys(results) : results'[k] = results[k] ]_vars

\* C15 (the abort does not wait): once the orchestrator has observed a
\* failed node, the exception can reach the caller of run() at once, whatever
\* the other dispatched nodes are doing, and a node that is still running is
\* left to finish.
AbortDoesNotWait ==
  (fe \in Runners /\ pc = "aborting") =>
    /\ ENABLED AbortDone
    /\ \A n \in nodes : status[n] = "running" => ENABLED BodyReturns(n)

\* A run in which no call of a body has raised
NoBodyRaised ==
  \A n \in nodes : exc[n] = NoExc /\ tlog[n].retry = 0 /\ calls[n] <= 1

\* C16 (completion): a run on an acyclic graph is never stuck before it
\* returns or raises; when it returns after no body has raised, every node
\* has been run exactly once and its completion handled, the completed
\* counter equals the number of nodes, and the store holds, under the name of
\* every node that succeeded, the value that node returned.
Completion ==
  fe \in Runners =>
    /\ pc \notin {"returned", "raised"} => ENABLED Next
    /\ (pc = "returned" /\ NoBodyRaised) =>
         /\ \A n \in nodes :
              /\ Processed(n)
              /\ status[n] \in {"succeeded", "skipped"}
              /\ status[n] = "succeeded" => calls[n] = 1
              /\ status[n] = "succeeded" => results[taskOf[n]] = fresult[n]
         /\ completed = Cardinality(nodes)

\* C17 (bounded concurrency): at most max_workers bodies are executing; a
\* submitted node waits only while every worker is busy and can start as soon
\* as one is free; a run never ends with a submitted node that has not run.
BoundedConcurrency ==
  fe \in Runners =>
    /\ Cardinality(Running) <= maxWorkers
    /\ \A n \in nodes :
         /\ (status[n] = "queued" /\ Cardinality(Running) < maxWorkers) =>
              ENABLED TaskStart(n)
         /\ (status[n] = "queued" /\ Cardinality(Running) >= maxWorkers) =>
              \E m \in Running : ENABLED (BodyReturns(m) \/ BodyRaises(m))
         /\ pc \in {"returned", "raised"} => status[n] \notin {"queued", "running"}

\* C17 happens: with max_workers = 1 one body is executing while two other
\* submitted nodes wait in the pool.
BoundedConcurrencyWitness ==
  /\ fe \in Runners
  /\ maxWorkers = 1
  /\ Cardinality(Running) = 1
  /\ Cardinality({n \in nodes : status[n] = "queued"}) = 2

\* C18 (only the orchestrator writes scheduler state): a step that changes
\* the result store or the in-degree table is a step of the orchestrating
\* thread, building the table at the start of run() or handling one
\* completion; it changes nothing a worker owns (the call under way, its
\* counters, its outcome, its log).
OrchestratorOnlyWrites ==
  [][ (results' # results \/ indegree' # indegree) =>
        /\ UNCHANGED << mode, kwargs, attempt, calls, fresult, exc, tlog,
                        current_delay, slept >>
        /\ \/ pc = "init" /\ pc' = "loop"
           \/ pc = "loop" /\ completed' = completed + 1 ]_vars

\* C18 happens: in a functional graph the store holds a key and the in-degree
\* of a node has been decremented while the body of another node is running.
OrchestratorOnlyWritesWitness ==
  /\ fe = "func"
  /\ Keys(results) # {}
  /\ \E n, d \in nodes :
       /\ status[n] = "running"
       /\ d # n
       /\ indegree[d] < Len(up[d])

\* The names of the ancestors of n
AncestorNames(n) == {taskOf[m] : m \in {a \in nodes : n \in Descendants(a)}}

\* C19 (named-result injection, Flow.run and FunctionalFlow.run): when the
\* body of a non-root node is called, it gets no positional argument; every
\* keyword argument it gets is named after one of its declared parameters and
\* holds the value the store holds under that name; and every declared
\* parameter that names an ancestor and is a key of the store is passed.
NamedInjection ==
  [][ \A n \in nodes :
        ( /\ fe \in {"flow", "func"}
          /\ up[n] # <<>>
          /\ status[n] = "queued"
          /\ status'[n] = "running" ) =>
          /\ args'[n] = <<>>
          /\ \A p \in Keys(kwargs'[n]) :
               p \in TaskParams(taskOf[n]) /\ kwargs'[n][p] = results[p]
          /\ \A p \in TaskParams(taskOf[n]) \cap AncestorNames(n) :
               p \in Keys(results) => kwargs'[n][p] = results[p] ]_vars

\* C19 happens: a body is running, called directly with two keyword
\* arguments.
NamedInjectionWitness ==
  \E n \in nodes :
    /\ status[n] = "running"
    /\ mode[n] = "direct"
    /\ Cardinality(Keys(kwargs[n])) = 2

\* C36 (injection is deterministic, Flow.run and FunctionalFlow.run): the
\* keyword arguments a body is called with are the same in every
\* interleaving, namely the declared parameters that name an ancestor whose
\* value the store holds; a parameter that names a node which is not an
\* ancestor is not passed, since that node need not have completed yet.
InjectionDeterministic ==
  [][ \A n \in nodes :
        ( /\ fe \in {"flow", "func"}
          /\ status[n] = "queued"
          /\ status'[n] = "running" ) =>
          Keys(kwargs'[n]) =
            {p \in TaskParams(taskOf[n]) \cap AncestorNames(n) :
               p \in Keys(results)} ]_vars

\* Every upstream node of d has finished, succeeded or skipped
UpstreamFinished(d) ==
  \A i \in DOMAIN up[d] : status[up[d][i]] \in {"succeeded", "skipped"}

\* C14 (greedy dispatch): in the scheduling loop, when every upstream node of
\* a node that is not submitted yet has finished, the orchestrator is not
\* waiting for some other node: it can handle the completion of one of those
\* upstream nodes, or at least the completion of some future, right now,
\* whenever a worker is free and no submitted node waits for a worker.
GreedyDispatch ==
  (/\ fe \in Runners
   /\ pc = "loop"
   /\ WorkerFree(Running, maxWorkers)
   /\ \A m \in futures : status[m] # "queued") =>
    \A d \in nodes :
      (status[d] = "pending" /\ up[d] # <<>> /\ UpstreamFinished(d)) =>
        \/ \E u \in SeqToSet(up[d]) : ENABLED ProcessResult(u)
        \/ \E m \in nodes : ENABLED ProcessResult(m) \/ ENABLED ProcessFailure(m)

\* The program is extract >> [transform1, transform2];
\* [transform1, transform2] >> load, with no run condition
IsFanOutFanIn ==
  /\ fe = "dag"
  /\ nodes = FanNodes
  /\ up = [n \in NodeIds |->
             IF n = 4 THEN <<2, 3>> ELSE IF n \in {2, 3} THEN <<1>> ELSE <<>>]
  /\ \A t \in Tasks : ~when[t] /\ retries[t] = 0

\* C20 (fan-out/fan-in, DAG.run): a node whose body is being called holds as
\* positional arguments the results of its upstream tasks, in the order of
\* its upstream list, None where the upstream was skipped; on the fan-out/
\* fan-in program the run never fails, every value the store holds is
\* extract = 10, transform1 = 20, transform2 = 15, load = 35, and the store
\* run() returns holds the four of them.
FanOutFanIn ==
  fe = "dag" =>
    /\ \A n \in nodes :
         status[n] = "running" =>
           /\ Len(args[n]) = Len(up[n])
           /\ \A i \in DOMAIN up[n] :
                /\ args[n][i] = Get(results, taskOf[up[n][i]])
                /\ status[up[n][i]] = "skipped" => args[n][i] = NoneV
                /\ status[up[n][i]] = "succeeded" => args[n][i] = fresult[up[n][i]]
    /\ IsFanOutFanIn =>
         /\ pc \notin {"aborting", "raised"}
         /\ \A n \in nodes : status[n] # "failed"
         /\ \A k \in Keys(results) :
              results[k] = (IF k = 1 THEN 10 ELSE IF k = 2 THEN 20
                            ELSE IF k = 3 THEN 15 ELSE 35)
         /\ pc = "returned" => Keys(results) = FanNodes

\* C20 happens: DAG.run has returned from the fan-out/fan-in program run
\* with two workers, with the four values in the store.
FanOutFanInWitness ==
  /\ IsFanOutFanIn
  /\ maxWorkers = 2
  /\ pc = "returned"
  /\ results = [k \in Tasks |-> IF k = 1 THEN 10 ELSE IF k = 2 THEN 20
                                 ELSE IF k = 3 THEN 15 ELSE 35]

(***************************************************************************)
(* Properties of the builder.                                              *)
(***************************************************************************)
\* How many times x occurs in the list s
Count(s, x) == Cardinality({i \in DOMAIN s : s[i] = x})

\* g2 is g with one more edge a -> b for every a of bps and every b of ts, in
\* the forward and in the reverse graph, and nothing else
Connected(g, g2, bps, ts) ==
  \A a \in NodeIds : \A b \in NodeIds :
    /\ Count(g2.graph[a], b) = Count(g.graph[a], b) + Count(bps, a) * Count(ts, b)
    /\ Count(g2.reverse_graph[b], a) =
         Count(g.reverse_graph[b], a) + Count(bps, a) * Count(ts, b)

\* A builder call has just been made
Called == ncalls' = ncalls + 1

\* C21 (branch and merge connect against the whole frontier): a branch or
\* merge call that does not raise adds one edge from every branch point the
\* flow had to every task it is given, and no other edge; the tasks it is
\* given are the new branch points; the task list gains them.  When the
\* merged flow runs, the merge task is submitted only after every one of
\* those branch points has finished and its completion has been handled.
FrontierConnect ==
  [][/\ (Called /\ lastcall'.op \in {"branch", "merge"} /\ ~lastcall'.raised) =>
          (LET f == flows[lastcall'.flow]
               f2 == flows'[lastcall'.flow]
           IN /\ Connected(f, f2, f.bp, lastcall'.ts)
              /\ f2.bp = lastcall'.ts
              /\ SeqToSet(f2.tasks) = SeqToSet(f.tasks) \cup SeqToSet(lastcall'.ts)
              /\ (lastcall'.op = "merge" => Len(f2.bp) = 1))
     /\ (fe' = "flow" /\ lastcall'.op = "merge"
           /\ status'[lastcall'.ts[1]] # "pending") =>
         (\A b \in SeqToSet(lastcall'.bp) :
            /\ status'[b] \in {"succeeded", "skipped"}
            /\ b \notin futures')
     ]_vars

\* C21 happens: a flow merged two branch points into a task, it runs, and
\* the merge task is running.
FrontierConnectWitness ==
  /\ fe = "flow"
  /\ lastcall.op = "merge"
  /\ Cardinality(SeqToSet(lastcall.bp)) = 2
  /\ status[lastcall.ts[1]] = "running"

\* C22 (usage errors are immediate): a branch or merge call on a flow
\* without branch point raises ValueError at the call and leaves every flow,
\* with its task list, its graphs and its branch points, as it was; run()
\* never raises it.
UsageErrorImmediate ==
  [][/\ (Called /\ lastcall'.op \in {"branch", "merge"}
           /\ flows[lastcall'.flow].bp = <<>>) =>
          (lastcall'.raised /\ flows' = flows)
     /\ ((Called /\ lastcall'.raised) => flows' = flows)
     /\ error'.type # "ValueError"
     ]_vars

\* C22 happens: a flow that has tasks but no branch point any more, after
\* branch() without argument, is asked to merge, and the call raised.
UsageErrorImmediateWitness ==
  /\ lastcall.raised
  /\ lastcall.op = "merge"
  /\ flows[lastcall.flow].tasks # <<>>

(***************************************************************************)
(* Properties of the functional style.                                     *)
(***************************************************************************)
\* The nodes reached from S by following recorded inputs backwards
RECURSIVE BackClosure(_)
BackClosure(S) ==
  LET more == S \cup UNION {SeqToSet(applied[n]) : n \in S}
  IN IF more = S THEN S ELSE BackClosure(more)

\* C23 (functional reachability): the node set of a FunctionalFlow is the
\* set of nodes reached from its declared outputs by following recorded
\* inputs backwards; a node outside it, listed among the flow's inputs or
\* not, is never submitted and its body is never called.
FunctionalReachability ==
  fe = "func" =>
    /\ fflow.all_nodes = BackClosure(SeqToSet(fflow.outputs))
    /\ nodes = fflow.all_nodes
    /\ \A n \in NodeIds \ fflow.all_nodes :
         /\ status[n] = "pending"
         /\ calls[n] = 0
         /\ n \notin futures

\* C23 happens: run() has returned from a flow with nodes, one of whose
\* declared inputs is a node that was constructed on another node and is not
\* reached from the outputs.
FunctionalReachabilityWitness ==
  /\ fe = "func"
  /\ pc = "returned"
  /\ nodes # {}
  /\ \E n \in SeqToSet(fflow.inputs) : n \notin nodes /\ applied[n] # <<>>

\* C24 (functional output shape): what a successful FunctionalFlow.run
\* returns has one value per declared output, in the order of declaration,
\* each the value the output node itself produced; it is the bare value
\* when one output was declared and a tuple otherwise, the empty tuple when
\* none was declared.
OutputShape ==
  (fe = "func" /\ pc = "returned") =>
    /\ retval.shape = (IF Len(fflow.outputs) = 1 THEN "value" ELSE "tuple")
    /\ Len(retval.vals) = Len(fflow.outputs)
    /\ \A i \in DOMAIN fflow.outputs :
         retval.vals[i] = fresult[fflow.outputs[i]]

\* C25 (name uniqueness): a graph in which two nodes have the same name is
\* rejected when it is built, so a run that got past its checks and
\* submitted nodes, or returned, has no two nodes with the same name, that
\* is, with the same key of the result store.
UniqueNames ==
  (fe \in Runners /\ pc \in {"loop", "aborting", "returned"}) =>
    \A a \in nodes : \A b \in nodes : a # b => taskOf[a] # taskOf[b]

RebuildEqual ==
  (fe = "chain" /\ pc = "rebuilt") => ChainGraph = first

(***************************************************************************)
(* Properties of the state store.                                          *)
(***************************************************************************)
\* The store holds an entry under k that has not expired
Live(k) == k \in DOMAIN sm.cache /\ ~Expired(sm.cache[k], now)

\* C28 (get/set with TTL): set(k, v, ttl) stores v under k with the age
\* starting at zero and with the per-call ttl, or default_ttl when none is
\* given, and leaves the other keys alone; get(k, default) returns the
\* stored value without changing the store as long as the entry's age is at
\* most its ttl (always when it has none), and otherwise returns the
\* default and leaves no entry under k
GetSetTtl ==
  [][LET k == lastop'.key
     IN /\ (lastop'.op = "set") =>
             (/\ sm'.cache[k] =
                   [value |-> lastop'.ret, timestamp |-> now,
                    ttl |-> IF lastop'.arg # TtlNone THEN lastop'.arg
                            ELSE sm.default_ttl]
              /\ \A j \in StoreKeys \ {k} :
                   /\ j \in DOMAIN sm'.cache <=> j \in DOMAIN sm.cache
                   /\ j \in DOMAIN sm.cache => sm'.cache[j] = sm.cache[j])
        /\ (lastop'.op = "get") =>
             IF /\ k \in DOMAIN sm.cache
                /\ \/ sm.cache[k].ttl = TtlNone
                   \/ now - sm.cache[k].timestamp <= sm.cache[k].ttl
             THEN lastop'.ret = sm.cache[k].value /\ sm' = sm
             ELSE lastop'.ret = lastop'.arg /\ k \notin DOMAIN sm'.cache]_vars

\* get returned a stored value whose age has just reached its ttl, stored
\* by a set that replaced an older entry's ttl
GetSetTtlWitness ==
  /\ lastop.op = "get"
  /\ lastop.key \in DOMAIN sm.cache
  /\ sm.cache[lastop.key].ttl = 1
  /\ sm.default_ttl = TtlNone
  /\ now - sm.cache[lastop.key].timestamp = 1
  /\ sm.cache[lastop.key].timestamp > 0
  /\ lastop.ret = 1
  /\ lastop.arg = 2

\* C29: has(k) returns True exactly when the store holds an unexpired entry
\* under k, whatever its value, a stored None included
HasIffLive ==
  [][(lastop'.op = "has") => (lastop'.flag <=> Live(lastop'.key))]_vars

\* C30 (memoization): a call of the wrapped function runs the body exactly
\* when the store holds no unexpired entry under the function's key; a
\* call that finds one returns the cached value and leaves the store alone
Memoized ==
  [][(lastop'.op = "call") =>
       IF Live(lastop'.key)
       THEN (/\ ~lastop'.flag
             /\ lastop'.ret = sm.cache[lastop'.key].value
             /\ sm' = sm)
       ELSE (/\ lastop'.flag
             /\ sm'.cache[lastop'.key].timestamp = now)]_vars

\* The nodes of the run reachable from the nodes of S along downstream
\* edges between nodes of the run, S included
RECURSIVE ReachWithin(_)
ReachWithin(S) ==
  LET T == S \cup (UNION {SeqToSet(down[m]) : m \in S} \cap nodes)
  IN IF T = S THEN S ELSE ReachWithin(T)

\* The graph restricted to the nodes of the run contains a directed cycle
CyclicWithin ==
  \E n \in nodes : n \in ReachWithin(SeqToSet(down[n]) \cap nodes)

\* C31 (cycle detector correctness): on the node set and the edges run()
\* hands to it, _has_cycle returns True when the graph restricted to the
\* node set contains a directed cycle and False when it does not, in
\* whatever order the collection is iterated
DetectorCorrect ==
  (fe \in Runners /\ pc = "init") =>
    \A order \in IterOrders :
      CycleCheck(down, order) = IF CyclicWithin THEN "True" ELSE "False"

\* C34 (edge endpoints belong to the executed node set): when run() is
\* entered, every upstream and every downstream endpoint of every node of
\* the run is itself a node of the run
EndpointsInNodeSet ==
  (fe \in Runners /\ pc = "init") =>
    \A n \in nodes : SeqToSet(up[n]) \cup SeqToSet(down[n]) \subseteq nodes

\* C35 (Flow.add is sequential): add(t) appends t to the task list, adds one
\* edge from the previously added task to t (none when t is the first
\* task) and makes t the only branch point.  When the flow runs after the
\* add, t is submitted only after every other task of the step that
\* preceded the add, the branch points the flow had, has finished and been
\* handled.
AddSequential ==
  [][/\ (Called /\ lastcall'.op = "add") =>
          (LET f == flows[lastcall'.flow]
               f2 == flows'[lastcall'.flow]
               prev == IF f.tasks = <<>> THEN <<>>
                       ELSE <<f.tasks[Len(f.tasks)]>>
           IN /\ f2.tasks = Append(f.tasks, lastcall'.ts[1])
              /\ Connected(f, f2, prev, lastcall'.ts)
              /\ f2.bp = lastcall'.ts)
     /\ (fe' = "flow" /\ lastcall'.op = "add"
           /\ status'[lastcall'.ts[1]] # "pending") =>
         (\A b \in SeqToSet(lastcall'.bp) \ {lastcall'.ts[1]} :
            /\ status'[b] \in {"succeeded", "skipped"}
            /\ b \notin futures')
     ]_vars

\* How many statements of the program chain the object x to the object y
Chained(x, y) ==
  Cardinality({j \in DOMAIN prog.stmts :
                 /\ BoundTo(prog.stmts[j][1]) = x
                 /\ BoundTo(prog.stmts[j][2]) = y})

\* C33 (dependency operator symmetry): at every point of a program that
\* declares, chains, clears and chains again, y occurs in x.downstream as
\* often as x occurs in y.upstream, and the >> statements add exactly one
\* edge per (left, right) pair to what the lists held
OperatorSymmetry ==
  /\ [](\A x \in NodeIds : \A y \in NodeIds :
          Count(downstream[x], y) = Count(upstream[y], x))
  /\ [][(fe = "chain" /\ pc' \in {"built", "rebuilt"}) =>
          \A x \in NodeIds : \A y \in NodeIds :
            Count(downstream'[x], y) = Count(downstream[x], y) + Chained(x, y)]_vars

\* The second build has chained a task of the first declaration to a task
\* of the second one, and some task has two downstream entries
OperatorSymmetryWitness ==
  /\ fe = "chain"
  /\ pc = "rebuilt"
  /\ \E x \in 1 .. ChainTasks : \E y \in NodeIds \ (1 .. ChainTasks) :
       y \in SeqToSet(downstream[x])
  /\ \E x \in NodeIds : Len(downstream[x]) = 2

(***************************************************************************)
(* Properties of the adjacency lists.                                      *)
(***************************************************************************)
\* b occurs in fwd[a] as often as a occurs in rev[b], and every edge leads
\* from a node of ns to a node of ns
Mirror(fwd, rev, ns) ==
  \A a \in NodeIds : \A b \in NodeIds :
    /\ Count(fwd[a], b) = Count(rev[b], a)
    /\ Count(fwd[a], b) > 0 => a \in ns /\ b \in ns

\* C32 (forward and reverse adjacency are mirror images): in every Flow,
\* after any sequence of add, branch and merge calls, and in the
\* FunctionalFlow, b occurs in graph[a] as often as a occurs in
\* reverse_graph[b], and both ends of every edge are in flow.tasks,
\* respectively in all_nodes
MirrorAdjacency ==
  /\ \A i \in Instances :
       Mirror(flows[i].graph, flows[i].reverse_graph, SeqToSet(flows[i].tasks))
  /\ Mirror(fflow.graph, fflow.reverse_graph, fflow.all_nodes)

\* A Flow holds the same edge twice and the FunctionalFlow holds two edges
MirrorAdjacencyWitness ==
  /\ \E i \in Instances : \E a, b \in BuilderTasks :
       Count(flows[i].graph[a], b) = 2
  /\ Len(fflow.graph[1]) = 2

====
